---------------------------- MODULE Spec2Model ----------------------------
(***************************************************************************)
(* A model of the download-cache pipeline of app.py: the per-identifier    *)
(* lock table, the in-progress set, the cache directory, download_audio,   *)
(* cleanup_old_files and the lock-free file readers.                       *)
(*                                                                         *)
(* Strings are sequences of one-character strings; the empty sequence      *)
(* stands for both "" and None wherever the code only tests truthiness.    *)
(* The extension ".mp3" is a single symbol at the end of a file name.      *)
(***************************************************************************)
EXTENDS Integers, Sequences, FiniteSets, TLC

(***************************************************************************)
(* Bounds of the model.                                                    *)
(***************************************************************************)
NThreads == 2
MaxNow == 15
TickStep == 5

(***************************************************************************)
(* Characters and strings.                                                 *)
(***************************************************************************)
AlnumChars ==
  { "a","b","c","d","e","f","g","h","i","j","k","l","m","n","o","p","q","r",
    "s","t","u","v","w","x","y","z",
    "A","B","C","D","E","F","G","H","I","J","K","L","M","N","O","P","Q","R",
    "S","T","U","V","W","X","Y","Z",
    "0","1","2","3","4","5","6","7","8","9" }

WhitespaceChars == { " ", "\t", "\n" }

Ext == << ".mp3" >>

Sep == << " ", "-", " " >>

CommaSep == << ",", " " >>

UnknownArtist == << "U","n","k","n","o","w","n"," ","A","r","t","i","s","t" >>

UnknownName == << "u","n","k","n","o","w","n" >>

RECURSIVE LStrip(_)
LStrip(s) ==
  IF s # << >> /\ Head(s) \in WhitespaceChars THEN LStrip(Tail(s)) ELSE s

RECURSIVE RStrip(_)
RStrip(s) ==
  IF s # << >> /\ s[Len(s)] \in WhitespaceChars
  THEN RStrip(SubSeq(s, 1, Len(s) - 1))
  ELSE s

\* " ".join(name.split()) on a string already stripped on the left: every run
\* of whitespace becomes one space, a trailing run disappears.
RECURSIVE JoinSplit(_)
JoinSplit(s) ==
  IF s = << >> THEN << >>
  ELSE IF Head(s) \in WhitespaceChars
       THEN LET rest == LStrip(s)
            IN  IF rest = << >> THEN << >> ELSE << " " >> \o JoinSplit(rest)
       ELSE << Head(s) >> \o JoinSplit(Tail(s))

SafeChars == AlnumChars \cup { " ", "-", "_" }

RECURSIVE KeepSafe(_)
KeepSafe(s) ==
  IF s = << >> THEN << >>
  ELSE IF Head(s) \in SafeChars
       THEN << Head(s) >> \o KeepSafe(Tail(s))
       ELSE KeepSafe(Tail(s))

sanitize_filename(name) ==
  IF name = << >> THEN << >>
  ELSE RStrip(KeepSafe(JoinSplit(LStrip(RStrip(name)))))

make_filename(title, artists) ==
  LET t == IF title # << >> THEN sanitize_filename(title) ELSE << >>
      a == IF artists # << >> THEN sanitize_filename(artists) ELSE << >>
  IN  IF a # << >> /\ t # << >> THEN t \o Sep \o a \o Ext
      ELSE IF t # << >> THEN t \o Ext
      ELSE (IF artists # << >> THEN artists ELSE UnknownName) \o Ext

RECURSIVE JoinWith(_, _)
JoinWith(list, sep) ==
  IF list = << >> THEN << >>
  ELSE IF Len(list) = 1 THEN list[1]
  ELSE list[1] \o sep \o JoinWith(Tail(list), sep)

(***************************************************************************)
(* Metadata records.  A song record is what ytmusic.get_song returns (or   *)
(* None: some = FALSE); a lookup record is what the metadata-only          *)
(* extract_info call returns (ok = FALSE: it raised).                      *)
(***************************************************************************)
ArtistDict(name, artist, browseId) ==
  [ isdict |-> TRUE, name |-> name, artist |-> artist, browseId |-> browseId,
    raw |-> << >> ]

ArtistStr(s) ==
  [ isdict |-> FALSE, name |-> << >>, artist |-> << >>, browseId |-> << >>,
    raw |-> s ]

NoSong ==
  [ some |-> FALSE, title |-> << >>, artists |-> << >>, vdTitle |-> << >>,
    vdAuthor |-> << >> ]

LookupFailed ==
  [ ok |-> FALSE, title |-> << >>, artistIsList |-> FALSE, artist |-> << >>,
    artistList |-> << >>, uploader |-> << >>, uploader_id |-> << >>,
    creator |-> << >>, channel |-> << >>, channel_id |-> << >> ]

RECURSIVE PrimaryArtists(_)
PrimaryArtists(entries) ==
  IF entries = << >> THEN << >>
  ELSE LET a == Head(entries)
           rest == PrimaryArtists(Tail(entries))
       IN  IF a.isdict
           THEN (IF a.name # << >> THEN << a.name >> ELSE << >>) \o rest
           ELSE << a.raw >> \o rest

RECURSIVE NonEmptyItems(_)
NonEmptyItems(list) ==
  IF list = << >> THEN << >>
  ELSE (IF Head(list) # << >> THEN << Head(list) >> ELSE << >>)
         \o NonEmptyItems(Tail(list))

\* info.get("artist") or info.get("uploader") or ... : the first truthy field,
\* as a list of artists ([] when every field is falsy).
FallbackArtists(info) ==
  IF info.artistIsList /\ info.artistList # << >>
    THEN NonEmptyItems(info.artistList)
  ELSE IF ~info.artistIsList /\ info.artist # << >> THEN << info.artist >>
  ELSE IF info.uploader # << >> THEN << info.uploader >>
  ELSE IF info.uploader_id # << >> THEN << info.uploader_id >>
  ELSE IF info.creator # << >> THEN << info.creator >>
  ELSE IF info.channel # << >> THEN << info.channel >>
  ELSE IF info.channel_id # << >> THEN << info.channel_id >>
  ELSE << >>

HasFallbackArtist(info) ==
  \/ info.artistIsList /\ info.artistList # << >>
  \/ ~info.artistIsList /\ info.artist # << >>
  \/ info.uploader # << >>
  \/ info.uploader_id # << >>
  \/ info.creator # << >>
  \/ info.channel # << >>
  \/ info.channel_id # << >>

\* A variant of resolve_title_and_artists that never consults the
\* metadata-only lookup.
resolve_PrimaryOnly(video_id, song, info) ==
  LET title1 == IF song.some
                THEN (IF song.title # << >> THEN song.title ELSE song.vdTitle)
                ELSE << >>
      listed == IF song.some THEN PrimaryArtists(song.artists) ELSE << >>
      artists1 == IF song.some /\ listed = << >> /\ song.vdAuthor # << >>
                  THEN << song.vdAuthor >>
                  ELSE listed
  IN  << IF title1 = << >> THEN video_id ELSE title1,
         JoinWith(IF artists1 = << >> THEN << UnknownArtist >> ELSE artists1,
                  CommaSep) >>

\* resolve_title_and_artists(video_id, song_details), with the result of the
\* metadata-only lookup `info` as a parameter: << title, artists_str >>.
resolve_title_and_artists(video_id, song, info) ==
  LET title1 == IF song.some
                THEN (IF song.title # << >> THEN song.title ELSE song.vdTitle)
                ELSE << >>
      listed == IF song.some THEN PrimaryArtists(song.artists) ELSE << >>
      artists1 == IF song.some /\ listed = << >> /\ song.vdAuthor # << >>
                  THEN << song.vdAuthor >>
                  ELSE listed
      needLookup == artists1 = << >> \/ title1 = << >>
      title2 == IF needLookup /\ info.ok /\ title1 = << >>
                THEN info.title ELSE title1
      artists2 == IF needLookup /\ info.ok /\ HasFallbackArtist(info)
                  THEN FallbackArtists(info) ELSE artists1
      artists3 == IF artists2 = << >> THEN << UnknownArtist >> ELSE artists2
      title3 == IF title2 = << >> THEN video_id ELSE title2
  IN  << title3, JoinWith(artists3, CommaSep) >>

\* lines 394-397 of download_audio: the canonical file name of a download.
FinalFilename(video_id, song, info) ==
  CHOOSE name \in { make_filename(r[1], r[2]) :
                      r \in { resolve_title_and_artists(video_id, song, info) } } :
    TRUE


(***************************************************************************)
(* The state.                                                              *)
(***************************************************************************)
Threads == 1 .. NThreads

IdX == << "x" >>

IdXY == << "x", "y" >>

Ids == { IdX, IdXY }

SongSA ==
  [ some |-> TRUE, title |-> << "S" >>,
    artists |-> << ArtistDict(<< "A" >>, << >>, << >>) >>,
    vdTitle |-> << >>, vdAuthor |-> << >> ]

\* The song_info arguments of download_audio, and the results of the
\* metadata-only lookup of the resolver.
SongInfos == { NoSong, SongSA }

Lookups == { LookupFailed }

NoLock == << >>

NoPath == << >>

None == << "None" >>

Raised == << "raised" >>

VARIABLES
  now,                  \* the wall clock, in minutes
  files,                \* the file system: name -> [st, src, mtime]
  DOWNLOAD_LOCKS,       \* video_id -> lock object (NoLock: no entry yet)
  locked,               \* the lock objects that are currently held
  DOWNLOAD_IN_PROGRESS, \* set of video ids
  pc,                   \* thread -> position in download_audio
  video_id,             \* thread -> argument of the calls it makes
  song_info,            \* thread -> argument of the calls it makes
  lock,                 \* thread -> local `lock`
  final_path,           \* thread -> local `final_path`
  mp3_path,             \* thread -> local `mp3_path`
  info,                 \* thread -> local `info` is not None
  result,               \* thread -> what the call returned
  how,                  \* thread -> the exit path the call took
  fetched,              \* thread -> extract_info(download=True) calls made
  overlap,              \* thread -> threads whose call overlapped this one
  attempt,              \* thread -> local `attempt` of the polling loop
  spc,                  \* cleanup_old_files: its position
  current_time,         \* cleanup_old_files: local `current_time`
  listing,              \* cleanup_old_files: globbed names not yet visited
  file_path,            \* cleanup_old_files: local `file_path`
  snapshot,             \* the directory as cleanup_old_files globbed it
  deleted,              \* the file cleanup_old_files unlinked last
  served,               \* what download_file sent last
  args,                 \* the arguments of the function being applied
  ret,                  \* what that function returned (NotCalled: not yet)
  clock,                \* time.time(), in seconds
  SONG_CACHE,           \* video_id -> [ts, data] (NoEntry: no entry)
  storedAt,             \* video_id -> the time at which its entry was stored
  gpc,                  \* a metadata request: its position
  g,                    \* a metadata request: its locals
  title_artists         \* a metadata request: what the resolver returned

dvars ==
  << DOWNLOAD_LOCKS, locked, DOWNLOAD_IN_PROGRESS, pc, video_id, song_info,
     lock, final_path, mp3_path, info, result, how, fetched, overlap,
     attempt >>

svars == << spc, current_time, listing, file_path, snapshot, deleted >>

\* The state of the download service, and the state beside it.
base == << now, files, dvars, svars, served >>

cvars == << clock, SONG_CACHE, storedAt, gpc, g, title_artists >>

xvars == << args, ret, cvars >>

vars == << base, xvars >>

TTL == 10

(***************************************************************************)
(* The cache directory.                                                    *)
(***************************************************************************)
NoDeletion == [ name |-> << >>, st |-> "absent", age |-> 0, inflight |-> FALSE ]

NoServed == [ name |-> << >>, st |-> "absent" ]

Exists(name) == name \in DOMAIN files

\* CACHE_DIR / f"{video_id}.mp3": where the fetch writes its output.
TempName(id) == id \o Ext

\* Path(prepare_filename(info)).with_suffix(".mp3"): a path relative to the
\* working directory, outside CACHE_DIR.
PreparedName(id) == << "/" >> \o id \o Ext

InCacheDir(name) == name # << >> /\ name[1] # "/"

IsPrefix(p, name) == Len(p) <= Len(name) /\ SubSeq(name, 1, Len(p)) = p

IsMp3(name) == name # << >> /\ name[Len(name)] = ".mp3"

\* CACHE_DIR.glob(pattern) for the three patterns the code uses.
GlobMp3 == { n \in DOMAIN files : InCacheDir(n) /\ IsMp3(n) }

GlobIdMp3(id) == { n \in GlobMp3 : IsPrefix(id, n) }

GlobId(id) == { n \in DOMAIN files : InCacheDir(n) /\ IsPrefix(id, n) }

Remove(fs, names) == [ n \in DOMAIN fs \ names |-> fs[n] ]

Put(fs, name, f) == [ n \in DOMAIN fs \cup { name } |-> IF n = name THEN f ELSE fs[n] ]

\* os.replace / os.rename: the destination takes the source file whole.
Rename(fs, from, to) == Put(Remove(fs, { from }), to, fs[from])

CanonicalNames ==
  { FinalFilename(i, s, l) : i \in Ids, s \in SongInfos, l \in Lookups }

(***************************************************************************)
(* The initial states.  Each thread serves the requests for one track; a   *)
(* workload says which.  The cache directory outlives the process, so it   *)
(* may hold a file of an earlier run.                                      *)
(***************************************************************************)
SameTrack == [ t \in Threads |-> [ id |-> IdX, song |-> SongSA ] ]

Collide ==
  [ t \in Threads |-> [ id |-> IF t = 1 THEN IdX ELSE IdXY, song |-> SongSA ] ]

Prefixed ==
  [ t \in Threads |-> [ id |-> IF t = 1 THEN IdX ELSE IdXY, song |-> NoSong ] ]

Workloads == { SameTrack, Collide, Prefixed }

OldName == << "O", ".mp3" >>

OldCache == OldName :> [ st |-> "tagged", src |-> << "o" >>, mtime |-> 0 ]

NotCalled == << "not called" >>

NoArgs == << >>

\* Nothing beside the download service is under way.
NoEntry == << >>

NoRequest == << >>

\* SONG_CACHE = {} and no metadata request under way.
CacheEmpty ==
  /\ clock = 0
  /\ SONG_CACHE = [ i \in Ids |-> NoEntry ]
  /\ storedAt = [ i \in Ids |-> 0 ]
  /\ gpc = "idle"
  /\ g = NoRequest
  /\ title_artists = NotCalled

Quiet ==
  /\ args = NoArgs
  /\ ret = NotCalled
  /\ CacheEmpty

Started(workload, cache) ==
  /\ now = 0
  /\ files = cache
  /\ DOWNLOAD_LOCKS = [ i \in Ids |-> NoLock ]
  /\ locked = { }
  /\ DOWNLOAD_IN_PROGRESS = { }
  /\ pc = [ t \in Threads |-> "idle" ]
  /\ video_id = [ t \in Threads |-> workload[t].id ]
  /\ song_info = [ t \in Threads |-> workload[t].song ]
  /\ lock = [ t \in Threads |-> NoLock ]
  /\ final_path = [ t \in Threads |-> NoPath ]
  /\ mp3_path = [ t \in Threads |-> NoPath ]
  /\ info = [ t \in Threads |-> FALSE ]
  /\ result = [ t \in Threads |-> None ]
  /\ how = [ t \in Threads |-> "none" ]
  /\ fetched = [ t \in Threads |-> 0 ]
  /\ overlap = [ t \in Threads |-> { } ]
  /\ attempt = [ t \in Threads |-> 0 ]
  /\ spc = "idle"
  /\ current_time = 0
  /\ listing = { }
  /\ file_path = NoPath
  /\ snapshot = << >>
  /\ deleted = NoDeletion
  /\ served = NoServed

Boot(workload, cache) == Started(workload, cache) /\ Quiet

Init == \E w \in Workloads : Boot(w, << >>)

InitReader == Boot(SameTrack, << >>)

InitJanitor == Boot(SameTrack, OldCache)

(***************************************************************************)
(* download_audio(video_id, song_info), one action per step a thread takes *)
(* between two points where another thread can run.                        *)
(***************************************************************************)
Active(t) == pc[t] \notin { "idle", "done" }

\* Between lock.acquire() returning True and lock.release().
InSection(t) ==
  pc[t] \in { "check", "fetch", "poll", "predict", "promote", "move",
              "copying", "cleanup", "tag", "tagging", "discard", "release" }

\* A variant of Fail in which the failed attempt hands back the canonical
\* path instead of None.
Fail_ReturnsPath(t, why) ==
  /\ result' = [result EXCEPT ![t] = final_path[t]]
  /\ how' = [how EXCEPT ![t] = why]
  /\ pc' = [pc EXCEPT ![t] = "discard"]

\* "log and return None" inside the try: the attempt ends with no result and
\* leaves through the finally clause.
Fail(t, why) ==
  /\ result' = [result EXCEPT ![t] = None]
  /\ how' = [how EXCEPT ![t] = why]
  /\ pc' = [pc EXCEPT ![t] = "discard"]

\* A variant of Finish in which a tag writer that fails or raises makes the
\* call return None.
Finish_TagFatal(t, outcome) ==
  /\ result' = [result EXCEPT ![t] =
                  IF outcome = "tagged" THEN final_path[t] ELSE None]
  /\ how' = [how EXCEPT ![t] = outcome]
  /\ pc' = [pc EXCEPT ![t] = "discard"]

\* Lines 508-515: whatever became of the tags, the canonical path is returned.
Finish(t, outcome) ==
  /\ result' = [result EXCEPT ![t] = final_path[t]]
  /\ how' = [how EXCEPT ![t] = outcome]
  /\ pc' = [pc EXCEPT ![t] = "discard"]

\* A variant of CacheHit in which the existence check always misses.
CacheHit_Never(name) == FALSE

\* Line 399, final_path.exists().
CacheHit(name) == Exists(name)

\* A variant of Released in which the lock stays held.
Released_Never(l) == locked

\* Line 521, lock.release().
Released(l) == locked \ { l }

\* Lines 377-384: the call starts; CACHE_DIR.mkdir may fail.
Call(t) ==
  /\ pc[t] = "idle"
  /\ \E mkdir_ok \in BOOLEAN :
       /\ IF mkdir_ok
          THEN /\ pc' = [pc EXCEPT ![t] = "lookup"]
               /\ how' = [how EXCEPT ![t] = "none"]
               /\ overlap' = [u \in Threads |->
                                IF u = t THEN { v \in Threads : Active(v) }
                                ELSE IF Active(u) THEN overlap[u] \cup { t }
                                ELSE overlap[u]]
          ELSE /\ pc' = [pc EXCEPT ![t] = "done"]
               /\ how' = [how EXCEPT ![t] = "mkdir"]
               /\ overlap' = overlap
  /\ result' = [result EXCEPT ![t] = None]
  /\ fetched' = [fetched EXCEPT ![t] = 0]
  /\ UNCHANGED << xvars, attempt,
                  now, files, DOWNLOAD_LOCKS, locked, DOWNLOAD_IN_PROGRESS,
                  video_id, song_info, lock, final_path, mp3_path, info, svars,
                  served >>

\* Line 386, DOWNLOAD_LOCKS[video_id]: the key is there, or the defaultdict
\* goes on to call its factory, a Python function, where threads can switch.
LockLookup(t) ==
  /\ pc[t] = "lookup"
  /\ IF DOWNLOAD_LOCKS[video_id[t]] # NoLock
     THEN /\ lock' = [lock EXCEPT ![t] = DOWNLOAD_LOCKS[video_id[t]]]
          /\ pc' = [pc EXCEPT ![t] = "acquire"]
     ELSE /\ lock' = lock
          /\ pc' = [pc EXCEPT ![t] = "missing"]
  /\ UNCHANGED << xvars, attempt,
                  now, files, DOWNLOAD_LOCKS, locked, DOWNLOAD_IN_PROGRESS,
                  video_id, song_info, final_path, mp3_path, info,
                  result, how, fetched, overlap, svars, served >>

\* Lines 46 and 386, defaultdict.__missing__: the factory's new lock is stored
\* under the key, whatever is there by now, and returned.
LockCreate(t) ==
  /\ pc[t] = "missing"
  /\ LET new == << video_id[t], t >>
     IN  /\ DOWNLOAD_LOCKS' = [DOWNLOAD_LOCKS EXCEPT ![video_id[t]] = new]
         /\ lock' = [lock EXCEPT ![t] = new]
  /\ pc' = [pc EXCEPT ![t] = "acquire"]
  /\ UNCHANGED << xvars, attempt,
                  now, files, locked, DOWNLOAD_IN_PROGRESS, video_id, song_info,
                  final_path, mp3_path, info, result, how, fetched,
                  overlap, svars, served >>

\* Line 387, lock.acquire(timeout=30) returns True.
Acquire(t) ==
  /\ pc[t] = "acquire"
  /\ lock[t] \notin locked
  /\ locked' = locked \cup { lock[t] }
  /\ pc' = [pc EXCEPT ![t] = "check"]
  /\ UNCHANGED << xvars, attempt,
                  now, files, DOWNLOAD_LOCKS, DOWNLOAD_IN_PROGRESS, video_id,
                  song_info, lock, final_path, mp3_path, info, result,
                  how, fetched, overlap, svars, served >>

\* A variant of GiveUp in which the call that timed out leaves through the
\* finally clause.
GiveUp_Finally(t) == pc' = [pc EXCEPT ![t] = "discard"]

\* Lines 388-390, `return None` ahead of the try block: the call is over.
GiveUp(t) == pc' = [pc EXCEPT ![t] = "done"]

\* Lines 387-390, lock.acquire(timeout=30) returns False: the lock was held
\* throughout the wait.
AcquireTimeout(t) ==
  /\ pc[t] = "acquire"
  /\ lock[t] \in locked
  /\ GiveUp(t)
  /\ result' = [result EXCEPT ![t] = None]
  /\ how' = [how EXCEPT ![t] = "timeout"]
  /\ UNCHANGED << xvars, attempt,
                  now, files, DOWNLOAD_LOCKS, locked, DOWNLOAD_IN_PROGRESS,
                  video_id, song_info, lock, final_path, mp3_path, info,
                  fetched, overlap, svars, served >>

\* Lines 394-406: resolve, name the canonical file, and either return it
\* (it exists) or mark the identifier in progress.
CheckCache(t) ==
  /\ pc[t] = "check"
  /\ \E l \in Lookups :
       LET name == FinalFilename(video_id[t], song_info[t], l)
       IN  /\ final_path' = [final_path EXCEPT ![t] = name]
           /\ IF CacheHit(name)
              THEN /\ result' = [result EXCEPT ![t] = name]
                   /\ how' = [how EXCEPT ![t] = "hit"]
                   /\ pc' = [pc EXCEPT ![t] = "discard"]
                   /\ DOWNLOAD_IN_PROGRESS' = DOWNLOAD_IN_PROGRESS
              ELSE /\ result' = result
                   /\ how' = how
                   /\ pc' = [pc EXCEPT ![t] = "fetch"]
                   /\ DOWNLOAD_IN_PROGRESS' =
                        DOWNLOAD_IN_PROGRESS \cup { video_id[t] }
  /\ UNCHANGED << xvars, attempt,
                  now, files, DOWNLOAD_LOCKS, locked, video_id, song_info, lock,
                  mp3_path, info, fetched, overlap, svars, served >>

\* Lines 392-399 and 517: an exception no handler inside the try catches (the
\* exists() call failing, say) leaves through the finally clause.
CheckRaises(t) ==
  /\ pc[t] = "check"
  /\ result' = [result EXCEPT ![t] = Raised]
  /\ how' = [how EXCEPT ![t] = "raised"]
  /\ pc' = [pc EXCEPT ![t] = "discard"]
  /\ UNCHANGED << xvars, attempt,
                  now, files, DOWNLOAD_LOCKS, locked, DOWNLOAD_IN_PROGRESS,
                  video_id, song_info, lock, final_path, mp3_path, info,
                  fetched, overlap, svars, served >>

\* Lines 432-443: the external fetch.  It raises, or it returns (with or
\* without an info record) having written the temp output or not.
Fetch(t) ==
  /\ pc[t] = "fetch"
  /\ fetched' = [fetched EXCEPT ![t] = fetched[t] + 1]
  /\ \E outcome \in { "raises", "returns" }, produced \in BOOLEAN,
        has_info \in BOOLEAN :
       IF outcome = "raises"
       THEN /\ ~produced /\ ~has_info
            /\ Fail(t, "fetchfail")
            /\ UNCHANGED << files, info, mp3_path >>
       ELSE /\ files' = IF produced
                        THEN Put(files, TempName(video_id[t]),
                                 [ st |-> "audio", src |-> video_id[t],
                                   mtime |-> now ])
                        ELSE files
            /\ info' = [info EXCEPT ![t] = has_info]
            /\ mp3_path' = [mp3_path EXCEPT ![t] = NoPath]
            /\ pc' = [pc EXCEPT ![t] = "poll"]
            /\ UNCHANGED << result, how >>
  /\ UNCHANGED << xvars, attempt,
                  now, DOWNLOAD_LOCKS, locked, DOWNLOAD_IN_PROGRESS, video_id,
                  song_info, lock, final_path, overlap, svars, served >>

\* The newest of a set of files, as sorted(..., reverse=True)[0] picks it.
Newest(names) == { n \in names : \A m \in names : files[m].mtime <= files[n].mtime }

\* Lines 445-461: the polling loop, as one step taken at its last round.
\* The rounds before it found nothing and changed nothing; the last round
\* finds a candidate, or is the last of the rounds allowed and finds none.
Poll(t) ==
  /\ pc[t] = "poll"
  /\ LET candidates == GlobIdMp3(video_id[t])
     IN  IF candidates # { }
         THEN \E n \in Newest(candidates) :
                 mp3_path' = [mp3_path EXCEPT ![t] = n]
         ELSE mp3_path' = mp3_path
  /\ pc' = [pc EXCEPT ![t] = "predict"]
  /\ UNCHANGED << xvars, attempt,
                  now, files, DOWNLOAD_LOCKS, locked, DOWNLOAD_IN_PROGRESS,
                  video_id, song_info, lock, final_path, info, result, how,
                  fetched, overlap, svars, served >>

poll_attempts == 30

\* A variant of LastRound that lets the loop run one round more.
LastRound_Late(a) == a + 1 >= poll_attempts + 1

\* Line 448, for attempt in range(poll_attempts): round `a` is the last.
LastRound(a) == a + 1 >= poll_attempts

\* Lines 448-461: one round of the polling loop.  A candidate is found and
\* the loop is left; or none is, and the thread sleeps and goes round again
\* unless this was the last round.
PollRound(t) ==
  /\ pc[t] = "poll"
  /\ LET candidates == GlobIdMp3(video_id[t])
     IN  IF candidates # { }
         THEN /\ \E n \in Newest(candidates) :
                   mp3_path' = [mp3_path EXCEPT ![t] = n]
              /\ attempt' = [attempt EXCEPT ![t] = 0]
              /\ pc' = [pc EXCEPT ![t] = "predict"]
         ELSE /\ mp3_path' = mp3_path
              /\ IF LastRound(attempt[t])
                 THEN /\ attempt' = [attempt EXCEPT ![t] = 0]
                      /\ pc' = [pc EXCEPT ![t] = "predict"]
                 ELSE /\ attempt' = [attempt EXCEPT ![t] = attempt[t] + 1]
                      /\ pc' = pc
  /\ UNCHANGED << xvars, now, files, DOWNLOAD_LOCKS, locked,
                  DOWNLOAD_IN_PROGRESS, video_id, song_info, lock, final_path,
                  info, result, how, fetched, overlap, svars, served >>

\* Lines 463-477: the path-prediction fallback, then the test for an output.
\* The predicted path is outside CACHE_DIR; whether a file is there is the
\* environment's choice, and a file found there is tracked from then on.
Predict(t) ==
  /\ pc[t] = "predict"
  /\ \E prepared_exists \in BOOLEAN :
       LET lost == ~Exists(mp3_path[t])
           use == lost /\ info[t] /\ prepared_exists
       IN  /\ prepared_exists => lost /\ info[t]
           /\ IF use
              THEN /\ mp3_path' = [mp3_path EXCEPT ![t] = PreparedName(video_id[t])]
                   /\ files' = Put(files, PreparedName(video_id[t]),
                                   [ st |-> "audio", src |-> video_id[t],
                                     mtime |-> now ])
              ELSE UNCHANGED << mp3_path, files >>
           /\ IF lost /\ ~use
              THEN Fail(t, "nooutput")
              ELSE /\ pc' = [pc EXCEPT ![t] = "promote"]
                   /\ UNCHANGED << result, how >>
  /\ UNCHANGED << xvars, attempt,
                  now, DOWNLOAD_LOCKS, locked, DOWNLOAD_IN_PROGRESS, video_id,
                  song_info, lock, final_path, info, fetched, overlap, svars,
                  served >>

\* Lines 482-490: os.replace moves the temp output onto the canonical name in
\* one step, or raises.
Promote(t) ==
  /\ pc[t] = "promote"
  /\ \E ok \in BOOLEAN :
       IF ok /\ Exists(mp3_path[t])
       THEN /\ files' = Rename(files, mp3_path[t], final_path[t])
            /\ pc' = [pc EXCEPT ![t] = "cleanup"]
       ELSE /\ files' = files
            /\ pc' = [pc EXCEPT ![t] = "move"]
  /\ UNCHANGED << xvars, attempt,
                  now, DOWNLOAD_LOCKS, locked, DOWNLOAD_IN_PROGRESS, video_id,
                  song_info, lock, final_path, mp3_path, info, result,
                  how, fetched, overlap, svars, served >>

\* Lines 491-495: shutil.move renames, or starts to copy the source into a
\* new file at the destination, or raises.
Move(t) ==
  /\ pc[t] = "move"
  /\ \E outcome \in { "rename", "copy", "raises" } :
       IF outcome = "rename" /\ Exists(mp3_path[t])
       THEN /\ files' = Rename(files, mp3_path[t], final_path[t])
            /\ pc' = [pc EXCEPT ![t] = "cleanup"]
            /\ UNCHANGED << result, how >>
       ELSE IF outcome = "copy" /\ Exists(mp3_path[t])
                 /\ mp3_path[t] # final_path[t]
       THEN /\ files' = Put(files, final_path[t],
                            [ st |-> "partial", src |-> files[mp3_path[t]].src,
                              mtime |-> now ])
            /\ pc' = [pc EXCEPT ![t] = "copying"]
            /\ UNCHANGED << result, how >>
       ELSE /\ outcome = "raises"
            /\ files' = files
            /\ Fail(t, "promotefail")
  /\ UNCHANGED << xvars, attempt,
                  now, DOWNLOAD_LOCKS, locked, DOWNLOAD_IN_PROGRESS, video_id,
                  song_info, lock, final_path, mp3_path, info, fetched,
                  overlap, svars, served >>

\* Lines 491-495, the copy of shutil.move: it completes (copy2 keeps the
\* source's times) and the source is unlinked, or it raises part way.
CopyDone(t) ==
  /\ pc[t] = "copying"
  /\ \E ok \in BOOLEAN :
       IF ok /\ Exists(mp3_path[t])
       THEN /\ files' = Rename(files, mp3_path[t], final_path[t])
            /\ pc' = [pc EXCEPT ![t] = "cleanup"]
            /\ UNCHANGED << result, how >>
       ELSE /\ files' = files
            /\ Fail(t, "promotefail")
  /\ UNCHANGED << xvars, attempt,
                  now, DOWNLOAD_LOCKS, locked, DOWNLOAD_IN_PROGRESS, video_id,
                  song_info, lock, final_path, mp3_path, info, fetched,
                  overlap, svars, served >>

\* Lines 497-506: every file of CACHE_DIR whose name starts with the
\* identifier, the canonical file excepted, is unlinked.
Cleanup(t) ==
  /\ pc[t] = "cleanup"
  /\ files' = Remove(files, GlobId(video_id[t]) \ { final_path[t] })
  /\ pc' = [pc EXCEPT ![t] = "tag"]
  /\ UNCHANGED << xvars, attempt,
                  now, DOWNLOAD_LOCKS, locked, DOWNLOAD_IN_PROGRESS, video_id,
                  song_info, lock, final_path, mp3_path, info, result,
                  how, fetched, overlap, svars, served >>

\* Lines 508-515 and add_metadata up to its save: the tags are built and the
\* save starts to rewrite the file in place, or tag writing fails or raises
\* before that and the file is left as it is.
TagBegin(t) ==
  /\ pc[t] = "tag"
  /\ \E outcome \in { "save", "fails", "raises" } :
       IF outcome = "save" /\ Exists(final_path[t])
       THEN /\ files' = [files EXCEPT ![final_path[t]].st = "rewriting",
                                      ![final_path[t]].mtime = now]
            /\ pc' = [pc EXCEPT ![t] = "tagging"]
            /\ UNCHANGED << result, how >>
       ELSE /\ outcome # "save"
            /\ files' = files
            /\ Finish(t, outcome)
  /\ UNCHANGED << xvars, attempt,
                  now, DOWNLOAD_LOCKS, locked, DOWNLOAD_IN_PROGRESS, video_id,
                  song_info, lock, final_path, mp3_path, info, fetched,
                  overlap, svars, served >>

\* Lines 259-264 and 514-515: id3.save ends, well or not, and download_audio
\* returns the canonical path.
TagDone(t) ==
  /\ pc[t] = "tagging"
  /\ \E ok \in BOOLEAN :
       /\ files' = IF Exists(final_path[t])
                   THEN [files EXCEPT ![final_path[t]].st =
                                         IF ok THEN "tagged" ELSE "partial",
                                      ![final_path[t]].mtime = now]
                   ELSE files
       /\ Finish(t, IF ok THEN "tagged" ELSE "fails")
  /\ UNCHANGED << xvars, attempt,
                  now, DOWNLOAD_LOCKS, locked, DOWNLOAD_IN_PROGRESS, video_id,
                  song_info, lock, final_path, mp3_path, info, fetched,
                  overlap, svars, served >>

\* Line 519, in the finally clause.
Discard(t) ==
  /\ pc[t] = "discard"
  /\ DOWNLOAD_IN_PROGRESS' = DOWNLOAD_IN_PROGRESS \ { video_id[t] }
  /\ pc' = [pc EXCEPT ![t] = "release"]
  /\ UNCHANGED << xvars, attempt,
                  now, files, DOWNLOAD_LOCKS, locked, video_id, song_info, lock,
                  final_path, mp3_path, info, result, how, fetched,
                  overlap, svars, served >>

\* Lines 520-523, in the finally clause; then the call returns.
Release(t) ==
  /\ pc[t] = "release"
  /\ locked' = Released(lock[t])
  /\ pc' = [pc EXCEPT ![t] = "done"]
  /\ UNCHANGED << xvars, attempt,
                  now, files, DOWNLOAD_LOCKS, DOWNLOAD_IN_PROGRESS, video_id,
                  song_info, lock, final_path, mp3_path, info, result,
                  how, fetched, overlap, svars, served >>

\* The caller has taken the result; the thread is free for another call.
Return(t) ==
  /\ pc[t] = "done"
  /\ pc' = [pc EXCEPT ![t] = "idle"]
  /\ lock' = [lock EXCEPT ![t] = NoLock]
  /\ final_path' = [final_path EXCEPT ![t] = NoPath]
  /\ mp3_path' = [mp3_path EXCEPT ![t] = NoPath]
  /\ info' = [info EXCEPT ![t] = FALSE]
  /\ result' = [result EXCEPT ![t] = None]
  /\ how' = [how EXCEPT ![t] = "none"]
  /\ fetched' = [fetched EXCEPT ![t] = 0]
  /\ overlap' = [u \in Threads |-> IF u = t THEN { } ELSE overlap[u] \ { t }]
  /\ UNCHANGED << xvars, attempt,
                  now, files, DOWNLOAD_LOCKS, locked, DOWNLOAD_IN_PROGRESS,
                  video_id, song_info, svars, served >>

(***************************************************************************)
(* cleanup_old_files(), run on its own thread.                             *)
(***************************************************************************)
\* A file some running download has located, is promoting or is tagging.
InFlight(name) ==
  \E t \in Threads :
    \/ pc[t] \in { "poll", "predict", "promote", "move", "copying" }
         /\ name \in { TempName(video_id[t]), mp3_path[t] }
    \/ pc[t] \in { "copying", "cleanup", "tag", "tagging" }
         /\ name = final_path[t]

\* Lines 291-294: the time is read and the directory listed.
SweepStart ==
  /\ spc \in { "idle", "ended", "aborted" }
  /\ current_time' = now
  /\ listing' = GlobMp3
  /\ snapshot' = [ n \in GlobMp3 |-> files[n] ]
  /\ file_path' = NoPath
  /\ spc' = "loop"
  /\ UNCHANGED << xvars, now, files, dvars, deleted, served >>

\* Lines 294-296: the next listed file is examined.  stat() of a file that
\* is gone raises, and the handler of line 307 ends the sweep.
SweepStat ==
  /\ spc = "loop"
  /\ \E n \in listing :
       IF ~Exists(n)
       THEN /\ listing' = listing \ { n }
            /\ file_path' = n
            /\ spc' = "aborted"
       ELSE /\ listing' = listing \ { n }
            /\ file_path' = n
            /\ spc' = IF current_time - files[n].mtime > TTL
                      THEN "unlink" ELSE "loop"
  /\ UNCHANGED << xvars, now, files, dvars, current_time, snapshot, deleted, served >>

\* Lines 297-302: unlink, whose failure is logged and passed over.
SweepUnlink ==
  /\ spc = "unlink"
  /\ \E ok \in BOOLEAN :
       IF ok /\ Exists(file_path)
       THEN /\ files' = Remove(files, { file_path })
            /\ deleted' = [ name |-> file_path, st |-> files[file_path].st,
                            age |-> current_time - files[file_path].mtime,
                            inflight |-> InFlight(file_path) ]
       ELSE UNCHANGED << files, deleted >>
  /\ spc' = "loop"
  /\ UNCHANGED << xvars, now, dvars, current_time, listing, file_path, snapshot, served >>

\* Lines 304-305: the listing is exhausted.
SweepEnd ==
  /\ spc = "loop"
  /\ listing = { }
  /\ spc' = "ended"
  /\ UNCHANGED << xvars, now, files, dvars, current_time, listing, file_path, snapshot,
                  deleted, served >>

\* Time passes.
Tick ==
  /\ now + TickStep <= MaxNow
  /\ now' = now + TickStep
  /\ UNCHANGED << xvars, files, dvars, svars, served >>

(***************************************************************************)
(* download_file(video_id): the lock-free reader.                          *)
(***************************************************************************)
\* Lines 698-715: the canonical file is sent if it exists, else the file
\* named after the identifier, else nothing (404).
ServeFile ==
  /\ \E t \in Threads, l \in Lookups :
       LET id == video_id[t]
           filename == FinalFilename(id, song_info[t], l)
           audio_path == IF Exists(filename) THEN filename ELSE TempName(id)
       IN  served' = IF Exists(audio_path)
                     THEN [ name |-> audio_path, st |-> files[audio_path].st ]
                     ELSE NoServed
  /\ UNCHANGED << xvars, now, files, dvars, svars >>

\* download_audio on a thread that has the locks to itself.
Solo(t) ==
  \/ Call(t)
  \/ LockLookup(t)
  \/ LockCreate(t)
  \/ Acquire(t)
  \/ CheckCache(t)
  \/ CheckRaises(t)
  \/ Fetch(t)
  \/ Poll(t)
  \/ Predict(t)
  \/ Promote(t)
  \/ Move(t)
  \/ CopyDone(t)
  \/ Cleanup(t)
  \/ TagBegin(t)
  \/ TagDone(t)
  \/ Discard(t)
  \/ Release(t)
  \/ Return(t)

Download(t) == Solo(t) \/ AcquireTimeout(t)

Sweep == SweepStart \/ SweepStat \/ SweepUnlink \/ SweepEnd

\* Concurrent calls of download_audio.
Next == \E t \in Threads : Download(t)

Spec == Init /\ [][Next]_vars

\* Concurrent calls of download_audio for one track, and the reader.
NextReader == (\E t \in Threads : Download(t)) \/ ServeFile

SpecReader == InitReader /\ [][NextReader]_vars

\* One call of download_audio, with the polling loop taken round by round.
Rounds(t) ==
  \/ Call(t)
  \/ LockLookup(t)
  \/ LockCreate(t)
  \/ Acquire(t)
  \/ AcquireTimeout(t)
  \/ CheckCache(t)
  \/ CheckRaises(t)
  \/ Fetch(t)
  \/ PollRound(t)
  \/ Predict(t)
  \/ Promote(t)
  \/ Move(t)
  \/ CopyDone(t)
  \/ Cleanup(t)
  \/ TagBegin(t)
  \/ TagDone(t)
  \/ Discard(t)
  \/ Release(t)

\* The steps of a call that is under way: all but the arrival of a request.
Running(t) == Active(t) /\ Rounds(t)

\* One call per thread, for one track, polling round by round; a thread that
\* is in a call is scheduled again and again.
NextLive == \E t \in Threads : Rounds(t)

SpecLive ==
  /\ InitReader
  /\ [][NextLive]_vars
  /\ \A t \in Threads : WF_vars(Running(t))

\* One thread of downloads, the janitor and the clock.
NextJanitor == Solo(1) \/ Sweep \/ Tick

SpecJanitor == InitJanitor /\ [][NextJanitor]_vars

(***************************************************************************)
(* Properties of the lock discipline.                                      *)
(***************************************************************************)
\* C1: for every identifier, at most one thread is between a successful
\* lock.acquire() of download_audio and the matching release.
C1_MutualExclusion ==
  \A t, u \in Threads :
    t # u /\ InSection(t) /\ InSection(u) => video_id[t] # video_id[u]

\* C2: of two overlapping calls for the same identifier that both returned a
\* path, at most one ran the external fetch, and both returned the same path.
C2_OneFetchSamePath ==
  \A t, u \in Threads :
    ( /\ t # u
      /\ pc[t] = "done" /\ pc[u] = "done"
      /\ u \in overlap[t] /\ t \in overlap[u]
      /\ video_id[t] = video_id[u]
      /\ how[t] \in { "hit", "tagged", "fails", "raises" }
      /\ how[u] \in { "hit", "tagged", "fails", "raises" } )
    => fetched[t] + fetched[u] <= 1 /\ result[t] = result[u]

\* The positions at which a thread has marked its identifier in progress.
Marked(t) ==
  pc[t] \in { "fetch", "poll", "predict", "promote", "move", "copying",
              "cleanup", "tag", "tagging", "discard" }

\* C3: a lock is held only by an attempt that is still inside the try block,
\* and an identifier is marked in progress only while such an attempt is
\* under way: once the calls have returned, every lock is free and no
\* identifier is marked.
C3_GuaranteedRelease ==
  /\ \A l \in locked : \E t \in Threads : InSection(t) /\ lock[t] = l
  /\ \A i \in DOWNLOAD_IN_PROGRESS :
       \E t \in Threads : Marked(t) /\ video_id[t] = i

\* A call left through an uncaught exception, and a later call of another
\* thread holds the lock it held.
C3_Witness ==
  \E t, u \in Threads :
    /\ pc[t] = "done" /\ how[t] = "raised"
    /\ pc[u] = "check" /\ lock[u] = lock[t]
    /\ t \notin overlap[u]

(***************************************************************************)
(* Properties of the download attempt.                                     *)
(***************************************************************************)
\* C5: when the canonical file exists at the check under the lock, the call
\* takes the path as its result and goes to the finally clause: the step
\* changes no file, marks nothing in progress, and no fetch is made.
C5_CacheHit ==
  /\ [][ \A t \in Threads :
           ( /\ pc[t] = "check" /\ pc'[t] # "check"
             /\ how'[t] # "raised"
             /\ final_path'[t] \in DOMAIN files )
           => /\ result'[t] = final_path'[t]
              /\ pc'[t] = "discard"
              /\ fetched'[t] = 0
              /\ files' = files
              /\ DOWNLOAD_IN_PROGRESS' = DOWNLOAD_IN_PROGRESS ]_vars
  /\ [] ( \A t \in Threads :
            how[t] = "hit" => fetched[t] = 0 /\ result[t] = final_path[t] )

\* A call has returned the path of a file that was there, without a fetch.
C5_Witness ==
  \E t \in Threads :
    /\ pc[t] = "done" /\ how[t] = "hit"
    /\ result[t] = final_path[t] /\ Exists(final_path[t])
    /\ fetched[t] = 0

FailureExits == { "timeout", "fetchfail", "nooutput", "promotefail" }

TagExits == { "tagged", "fails", "raises" }

\* C6: a call whose lock wait timed out, whose fetch raised, that found no
\* output, or whose rename and fallback move both failed returns None, and
\* from the failure on it is past every step that writes tags.
C6_FailuresReturnNone ==
  \A t \in Threads :
    how[t] \in FailureExits
    => result[t] = None /\ pc[t] \in { "discard", "release", "done" }

\* One call has timed out on the lock while another failed to promote.
C6_Witness ==
  \E t, u \in Threads :
    /\ pc[t] = "done" /\ how[t] = "timeout" /\ result[t] = None
    /\ pc[u] = "done" /\ how[u] = "promotefail" /\ result[u] = None

\* C7: a canonical file, once present, is never replaced by the download of
\* another identifier.
C7_NeverReplaced ==
  [][ \A n \in CanonicalNames :
        n \in DOMAIN files /\ n \in DOMAIN files'
        => files'[n].src = files[n].src ]_vars

\* C10: a call that reached tag writing, which comes after the promotion,
\* returns the canonical path whatever the tag writer did.
C10_TagFailuresIgnored ==
  \A t \in Threads :
    pc[t] \in { "discard", "release", "done" } /\ how[t] \in TagExits
    => result[t] = final_path[t] /\ result[t] \in CanonicalNames

\* A call has returned the canonical path although tag writing raised.
C10_Witness ==
  \E t \in Threads :
    /\ pc[t] = "done" /\ how[t] = "raises"
    /\ result[t] = final_path[t] /\ Exists(final_path[t])

(***************************************************************************)
(* Properties of the readers and of the janitor.                           *)
(***************************************************************************)
\* C4: a canonical file sent by the lock-free reader is never one that is
\* still being written: not a copy in progress, not a file whose tags are
\* being saved.
C4_NoPartialCanonical ==
  served.name \in CanonicalNames => served.st \in { "audio", "tagged" }

\* C8: the janitor deletes only canonical files that are fully written and
\* that no running download has located, is promoting or is tagging.
C8_SweepOnlyPromoted ==
  deleted.st # "absent"
  => /\ deleted.name \in CanonicalNames \cup { OldName }
     /\ deleted.st \in { "audio", "tagged" }
     /\ ~deleted.inflight

\* C9: when a sweep stops, no file it listed is left unexamined that is
\* still there and older than 10 minutes, and a file it deleted was older
\* than 10 minutes.
C9_SweepThreshold ==
  /\ spc \in { "ended", "aborted" }
     => \A n \in listing :
          Exists(n) => current_time - files[n].mtime <= TTL
  /\ deleted.st # "absent" => deleted.age > TTL

(***************************************************************************)
(* resolve_title_and_artists applied to every record of a bounded family.  *)
(***************************************************************************)
MaxArtists == 2

\* The entries of song_details["artists"]: a dict with a name, a dict with
\* no name (other keys only), a bare string, and an empty bare string.
ArtistEntries ==
  { ArtistDict(<< "A" >>, << >>, << >>),
    ArtistDict(<< >>, << "B" >>, << "b" >>),
    ArtistStr(<< "C" >>),
    ArtistStr(<< >>) }

ArtistLists ==
  UNION { [ 1 .. n -> ArtistEntries ] : n \in 0 .. MaxArtists }

\* What ytmusic.get_song may have returned: nothing, or a record with or
\* without title, artists and videoDetails.
SongRecords ==
  { NoSong } \cup
  { [ some |-> TRUE, title |-> t, artists |-> a, vdTitle |-> vt,
      vdAuthor |-> va ] :
      t \in { << >>, << "S" >> }, a \in ArtistLists,
      vt \in { << >>, << "V" >> }, va \in { << >>, << "W" >> } }

\* What the metadata-only extract_info call may do: raise, or return a record
\* whose "artist" is a string or a list, with or without the other fields.
LookupRecords ==
  { LookupFailed } \cup
  { [ ok |-> TRUE, title |-> t, artistIsList |-> FALSE, artist |-> a,
      artistList |-> << >>, uploader |-> u, uploader_id |-> << >>,
      creator |-> << >>, channel |-> << >>, channel_id |-> c ] :
      t \in { << >>, << "T" >> }, a \in { << >>, << "R" >> },
      u \in { << >>, << "U" >> }, c \in { << >>, << "K" >> } } \cup
  { [ ok |-> TRUE, title |-> t, artistIsList |-> TRUE, artist |-> << >>,
      artistList |-> al, uploader |-> u, uploader_id |-> << >>,
      creator |-> << >>, channel |-> << >>, channel_id |-> c ] :
      t \in { << >>, << "T" >> },
      al \in { << >>, << << >> >>, << << "R" >> >> },
      u \in { << >>, << "U" >> }, c \in { << >>, << "K" >> } }

ResolveArgs ==
  { [ fn |-> "resolve", video_id |-> i, song |-> sd, info |-> l ] :
      i \in Ids, sd \in SongRecords, l \in LookupRecords }

InitResolve ==
  /\ Started(SameTrack, << >>)
  /\ CacheEmpty
  /\ args \in ResolveArgs
  /\ ret = NotCalled

\* Lines 311-371: one call of resolve_title_and_artists.
Resolve ==
  /\ args # NoArgs /\ args.fn = "resolve"
  /\ ret = NotCalled
  /\ ret' = resolve_title_and_artists(args.video_id, args.song, args.info)
  /\ UNCHANGED << base, cvars, args >>

NextResolve == Resolve

SpecResolve == InitResolve /\ [][NextResolve]_vars

\* C11: resolve_title_and_artists never returns an empty title or an empty
\* artist string, whatever the identifier, the song record and the result of
\* the metadata-only lookup.
C11_NeverEmpty ==
  ret # NotCalled => ret[1] # << >> /\ ret[2] # << >>

(***************************************************************************)
(* get_song_details(video_id) followed by the resolver, as psp_download and *)
(* the other routes call them, one request at a time, while time passes.   *)
(***************************************************************************)
SONG_CACHE_TTL == 300

ClockStep == 100

MaxClock == 500

\* What ytmusic.get_song returns when it returns.
ProviderRecords ==
  { SongSA,
    [ some |-> TRUE, title |-> << >>, artists |-> << >>, vdTitle |-> << >>,
      vdAuthor |-> << >> ] }

\* What the resolver's metadata-only lookup does in a request.
RequestLookups ==
  { LookupFailed,
    [ LookupFailed EXCEPT !.ok = TRUE, !.title = << "T" >> ],
    [ LookupFailed EXCEPT !.ok = TRUE ],
    [ LookupFailed EXCEPT !.ok = TRUE, !.title = << "T" >>,
                          !.uploader = << "U" >> ] }

\* A variant of Fresh in which every entry has expired.
Fresh_Never(n, ts) == FALSE

\* Line 61: now - ts < SONG_CACHE_TTL.
Fresh(n, ts) == n - ts < SONG_CACHE_TTL

\* Lines 57-62: the time is read and the entry looked up; a fresh entry is
\* returned.
GetSongStart ==
  /\ gpc = "idle"
  /\ \E i \in Ids :
       LET entry == SONG_CACHE[i]
           hit == entry # NoEntry /\ Fresh(clock, entry.ts)
       IN  /\ args' = [ fn |-> "get_song_details", video_id |-> i ]
           /\ g' = [ now |-> clock, entry |-> entry, stored |-> storedAt[i],
                     called |-> FALSE, raised |-> FALSE, info |-> LookupFailed ]
           /\ IF hit
              THEN ret' = entry.data /\ gpc' = "returned"
              ELSE ret' = NotCalled /\ gpc' = "provider"
  /\ UNCHANGED << base, clock, SONG_CACHE, storedAt, title_artists >>

\* Lines 64-72: ytmusic.get_song returns or raises; either way an entry is
\* stored under the time read at line 57.
GetSongProvider ==
  /\ gpc = "provider"
  /\ \E raises \in BOOLEAN, record \in ProviderRecords :
       LET data == IF raises THEN NoSong ELSE record
       IN  /\ raises => record = SongSA
           /\ SONG_CACHE' = [SONG_CACHE EXCEPT ![args.video_id] =
                               [ ts |-> g.now, data |-> data ]]
           /\ storedAt' = [storedAt EXCEPT ![args.video_id] = clock]
           /\ g' = [g EXCEPT !.called = TRUE, !.raised = raises]
           /\ ret' = data
  /\ gpc' = "returned"
  /\ UNCHANGED << base, args, clock, title_artists >>

\* Lines 608-609 (also 578-579, 640-641, 698-700): the resolver is applied
\* to what get_song_details returned.
ResolveDetails ==
  /\ gpc = "returned"
  /\ \E l \in RequestLookups :
       /\ g' = [g EXCEPT !.info = l]
       /\ title_artists' = resolve_title_and_artists(args.video_id, ret, l)
  /\ gpc' = "resolved"
  /\ UNCHANGED << base, args, ret, clock, SONG_CACHE, storedAt >>

\* The request is over.
RequestDone ==
  /\ gpc = "resolved"
  /\ gpc' = "idle"
  /\ args' = NoArgs
  /\ ret' = NotCalled
  /\ g' = NoRequest
  /\ title_artists' = NotCalled
  /\ UNCHANGED << base, clock, SONG_CACHE, storedAt >>

\* Time passes, also while the provider is being called.
ClockTick ==
  /\ clock + ClockStep <= MaxClock
  /\ clock' = clock + ClockStep
  /\ UNCHANGED << base, args, ret, SONG_CACHE, storedAt, gpc, g, title_artists >>

InitCache == Boot(SameTrack, << >>)

NextCache ==
  GetSongStart \/ GetSongProvider \/ ResolveDetails \/ RequestDone \/ ClockTick

SpecCache == InitCache /\ [][NextCache]_vars

\* The metadata-only lookup gave no artist: it raised, or none of the fields
\* the resolver reads is set.
NoArtistField(l) ==
  \/ ~l.ok
  \/ /\ l.artist = << >> /\ l.artistList = << >>
     /\ l.uploader = << >> /\ l.uploader_id = << >> /\ l.creator = << >>
     /\ l.channel = << >> /\ l.channel_id = << >>

C13_FreshByTimestamp ==
  gpc \in { "returned", "resolved" }
  => /\ g.entry # NoEntry /\ g.now - g.entry.ts < SONG_CACHE_TTL
        => ~g.called /\ ret = g.entry.data
     /\ g.raised
        => /\ ret = NoSong
           /\ SONG_CACHE[args.video_id] = [ ts |-> g.now, data |-> NoSong ]

\* A stored failure was returned from the cache 200 seconds after its
\* timestamp.
C13_Witness ==
  /\ gpc = "returned" /\ ~g.called
  /\ g.entry # NoEntry /\ g.entry.data = NoSong
  /\ g.now - g.entry.ts = 2 * ClockStep
  /\ ret = NoSong

\* C13 as stated: a call that starts less than 300 seconds after the moment
\* the entry was stored returns the entry's value without calling the
\* provider.
C13_FreshByStoreTime ==
  gpc \in { "returned", "resolved" }
  => ( g.entry # NoEntry /\ g.now - g.stored < SONG_CACHE_TTL
       => ~g.called /\ ret = g.entry.data )

(***************************************************************************)
(* sanitize_filename applied to a string, and again to what it returned.   *)
(***************************************************************************)
MaxLen == 4

\* A letter, a space, a character sanitize_filename drops, and a hyphen.
NameChars == { "a", " ", "!", "-" }

Names == UNION { [ 1 .. n -> NameChars ] : n \in 0 .. MaxLen }

InitSanitize ==
  /\ Started(SameTrack, << >>)
  /\ CacheEmpty
  /\ args \in { [ fn |-> "sanitize_filename", name |-> x, pass |-> 1 ] :
                  x \in Names }
  /\ ret = NotCalled

\* Lines 75-81: sanitize_filename(name).
Sanitize ==
  /\ args # NoArgs /\ args.fn = "sanitize_filename"
  /\ ret = NotCalled
  /\ ret' = sanitize_filename(args.name)
  /\ UNCHANGED << base, cvars, args >>

\* Lines 75-81: sanitize_filename applied to its own result.
SanitizeAgain ==
  /\ args # NoArgs /\ args.fn = "sanitize_filename" /\ args.pass = 1
  /\ ret # NotCalled
  /\ args' = [ fn |-> "sanitize_filename", name |-> ret, pass |-> 2 ]
  /\ ret' = sanitize_filename(ret)
  /\ UNCHANGED << base, cvars >>

NextSanitize == Sanitize \/ SanitizeAgain

SpecSanitize == InitSanitize /\ [][NextSanitize]_vars

\* C14: sanitize_filename applied to its own result returns that result.
C14_Idempotent ==
  args # NoArgs /\ args.fn = "sanitize_filename" /\ args.pass = 2
  => ret = args.name

(***************************************************************************)
(* make_filename applied to two (title, artists) pairs.                    *)
(***************************************************************************)
\* Strings that sanitize_filename leaves as they are.
CleanNames ==
  { << >>, << "a" >>, << "b" >>,
    << "a", " ", "-", " ", "b" >>, << "b", " ", "-", " ", "a" >> }

Pairs == { [ title |-> t, artists |-> a ] : t \in CleanNames, a \in CleanNames }

InitFilename ==
  /\ Started(SameTrack, << >>)
  /\ CacheEmpty
  /\ args \in { [ fn |-> "make_filename", p |-> p, q |-> q ] :
                  p \in Pairs, q \in Pairs }
  /\ ret = NotCalled

\* Lines 84-92: make_filename(title, artists), for each of the two pairs.
MakeFilenames ==
  /\ args # NoArgs /\ args.fn = "make_filename"
  /\ ret = NotCalled
  /\ ret' = << make_filename(args.p.title, args.p.artists),
               make_filename(args.q.title, args.q.artists) >>
  /\ UNCHANGED << base, cvars, args >>

NextFilename == MakeFilenames

SpecFilename == InitFilename /\ [][NextFilename]_vars

\* C15: two pairs whose sanitized titles or sanitized artists differ get
\* different file names.
C15_Injective ==
  args # NoArgs /\ args.fn = "make_filename" /\ ret # NotCalled
  => ( ( \/ sanitize_filename(args.p.title) # sanitize_filename(args.q.title)
         \/ sanitize_filename(args.p.artists)
              # sanitize_filename(args.q.artists) )
       => ret[1] # ret[2] )

(***************************************************************************)
(* make_psp_cover(url).  The response and the image are given by what the  *)
(* function reads of them: the status, the size of the picture, and the    *)
(* length of its JPEG encoding at each of the two qualities.               *)
(***************************************************************************)
CoverSide == 150

FirstQuality == 85

RetryQuality == 70

CoverLimit == 60 * 1024

\* Where make_psp_cover meets an exception, if anywhere: in requests.get, in
\* Image.open, or in img.save.
CoverFailures == { "none", "get", "open", "save" }

Covers ==
  { [ fn |-> "make_psp_cover", status |-> st, fails |-> f, w |-> w, h |-> h,
      len85 |-> a, len70 |-> b ] :
      st \in { 200, 404, 500 }, f \in CoverFailures,
      w \in { 100, 150, 301 }, h \in { 100, 150, 301 },
      a \in { CoverLimit - 1, CoverLimit, CoverLimit + 1 },
      b \in { CoverLimit - 1, CoverLimit + 1 } }

\* Lines 121-128: the centre crop to a square.
Crop(w, h) ==
  IF w = h THEN [ w |-> w, h |-> h ]
  ELSE IF w > h
       THEN LET offset == (w - h) \div 2
            IN  [ w |-> (offset + h) - offset, h |-> h ]
       ELSE LET offset == (h - w) \div 2
            IN  [ w |-> w, h |-> (offset + w) - offset ]

\* Line 131: img.resize((150, 150), Image.LANCZOS).
Resize(img) == [ w |-> CoverSide, h |-> CoverSide ]

\* A variant of TooLarge that also sends an encoding of exactly 60 KiB to
\* the second attempt.
TooLarge_AtLimit(len) == len >= CoverLimit

\* Line 137: len(data) > 60 * 1024.
TooLarge(len) == len > CoverLimit

\* The bytes returned, by what is observable of them: the quality and the
\* length of the encoding and the size of the picture encoded.
Jpeg(quality, len, img) == << quality, len, img.w, img.h >>

JpegQuality(data) == data[1]

JpegLen(data) == data[2]

JpegSize(data) == << data[3], data[4] >>

\* Lines 110-145: the JPEG returned, or None.
make_psp_cover(c) ==
  IF c.fails = "get" THEN None
  ELSE IF c.status # 200 THEN None
  ELSE IF c.fails = "open" THEN None
  ELSE LET img == Resize(Crop(c.w, c.h))
       IN  IF c.fails = "save" THEN None
           ELSE IF TooLarge(c.len85)
                THEN Jpeg(RetryQuality, c.len70, img)
                ELSE Jpeg(FirstQuality, c.len85, img)

InitCover ==
  /\ Started(SameTrack, << >>)
  /\ CacheEmpty
  /\ args \in Covers
  /\ ret = NotCalled

\* One call of make_psp_cover.
MakeCover ==
  /\ args # NoArgs /\ args.fn = "make_psp_cover"
  /\ ret = NotCalled
  /\ ret' = make_psp_cover(args)
  /\ UNCHANGED << base, cvars, args >>

NextCover == MakeCover

SpecCover == InitCover /\ [][NextCover]_vars

\* C16: a response that is not 200, or an exception anywhere, gives None;
\* otherwise the result is 150x150 and is the quality-85 encoding if that is
\* at most 60 KiB, else the quality-70 encoding whatever its length.
C16_CoverSizeRule ==
  args # NoArgs /\ args.fn = "make_psp_cover" /\ ret # NotCalled
  => IF args.status # 200 \/ args.fails # "none"
     THEN ret = None
     ELSE /\ ret # None
          /\ JpegSize(ret) = << 150, 150 >>
          /\ args.len85 <= 60 * 1024
             => JpegQuality(ret) = 85 /\ JpegLen(ret) = args.len85
          /\ args.len85 > 60 * 1024
             => JpegQuality(ret) = 70 /\ JpegLen(ret) = args.len70

\* The quality-85 encoding of a wide picture was too long, and the
\* quality-70 encoding was returned although it is longer than 60 KiB too.
C16_Witness ==
  /\ args # NoArgs /\ args.fn = "make_psp_cover" /\ ret # NotCalled
  /\ ret # None
  /\ args.w > args.h
  /\ JpegQuality(ret) = 70 /\ JpegLen(ret) > 60 * 1024
  /\ JpegSize(ret) = << 150, 150 >>

(***************************************************************************)
(* Properties of download_audio, continued.                                *)
(***************************************************************************)
\* C17: the polling loop makes at most 30 rounds; a call that found no
\* output after the loop and the path prediction returns None and that step
\* creates no file; and every call that has started reaches its return, the
\* wait for the lock ending by itself.
C17_Terminates ==
  /\ [] ( \A t \in Threads : attempt[t] + 1 <= 30 )
  /\ [][ \A t \in Threads :
           pc[t] = "predict" /\ how'[t] = "nooutput"
           => result'[t] = None /\ pc'[t] = "discard" /\ files' = files ]_vars
  /\ \A t \in Threads : Active(t) ~> pc[t] = "done"

\* One call is about to make its 30th round with nothing to find, another
\* has returned None for want of an output.
C17_Witness ==
  \E t, u \in Threads :
    /\ pc[t] = "poll" /\ attempt[t] = 29 /\ GlobIdMp3(video_id[t]) = { }
    /\ pc[u] = "done" /\ how[u] = "nooutput" /\ result[u] = None

\* C18: the temp output a download promotes was fetched for its own
\* identifier, and the files its leftover cleanup unlinks were fetched for
\* its own identifier and are no track's canonical file.
C18_Isolation ==
  [][ \A t \in Threads :
        /\ ( /\ pc[t] \in { "promote", "move", "copying" }
             /\ pc'[t] \in { "cleanup", "copying" }
             /\ files' # files )
           => files[mp3_path[t]].src = video_id[t]
        /\ ( pc[t] = "cleanup" /\ pc'[t] = "tag" )
           => \A n \in DOMAIN files \ DOMAIN files' :
                files[n].src = video_id[t] /\ n \notin CanonicalNames ]_vars

\* C19: an identifier that is marked in progress has its lock, the one
\* DOWNLOAD_LOCKS holds for it, held by a thread that marked it; it is
\* marked only by the step that found no canonical file, taken under the
\* lock, and unmarked only by a thread that still holds its lock.
C19_InProgressLocked ==
  /\ [] ( \A i \in DOWNLOAD_IN_PROGRESS :
            /\ DOWNLOAD_LOCKS[i] \in locked
            /\ \E t \in Threads :
                 Marked(t) /\ video_id[t] = i /\ lock[t] = DOWNLOAD_LOCKS[i] )
  /\ [][ \A i \in Ids :
           /\ ( i \notin DOWNLOAD_IN_PROGRESS /\ i \in DOWNLOAD_IN_PROGRESS' )
              => \E t \in Threads :
                   /\ video_id[t] = i /\ lock[t] \in locked
                   /\ pc[t] = "check" /\ pc'[t] = "fetch"
                   /\ final_path'[t] \notin DOMAIN files
           /\ ( i \in DOWNLOAD_IN_PROGRESS /\ i \notin DOWNLOAD_IN_PROGRESS' )
              => \E t \in Threads :
                   /\ video_id[t] = i /\ lock[t] \in locked'
                   /\ pc[t] = "discard" /\ pc'[t] = "release" ]_vars

\* C20: a lock leaves the held set only by the release of a thread that
\* acquired it; the step by which a lock wait times out ends the call with
\* None and changes no lock, no in-progress mark, no file, no fetch count
\* and no other thread's position; and a call that timed out has made no
\* fetch.
C20_TimeoutTouchesNothing ==
  /\ [][ \A l \in locked \ locked' :
           \E t \in Threads :
             /\ lock[t] = l /\ how[t] # "timeout"
             /\ pc[t] = "release" /\ pc'[t] = "done" ]_vars
  /\ [][ \A t \in Threads :
           ( pc[t] = "acquire" /\ how'[t] = "timeout" )
           => /\ pc'[t] = "done" /\ result'[t] = None
              /\ locked' = locked
              /\ DOWNLOAD_LOCKS' = DOWNLOAD_LOCKS
              /\ DOWNLOAD_IN_PROGRESS' = DOWNLOAD_IN_PROGRESS
              /\ files' = files
              /\ fetched' = fetched
              /\ \A u \in Threads \ { t } :
                   pc'[u] = pc[u] /\ result'[u] = result[u] ]_vars
  /\ [] ( \A t \in Threads :
            how[t] = "timeout"
            => pc[t] = "done" /\ result[t] = None /\ fetched[t] = 0 )

\* A call has timed out and returned while the thread holding the lock is
\* still at work on its attempt, its mark and its lock in place.
C20_Witness ==
  \E t, u \in Threads :
    /\ pc[t] = "done" /\ how[t] = "timeout" /\ result[t] = None
    /\ u # t /\ lock[u] = lock[t] /\ lock[u] \in locked
    /\ pc[u] = "tag" /\ fetched[u] = 1
    /\ video_id[u] \in DOWNLOAD_IN_PROGRESS

(***************************************************************************)
(* Properties of the lock table.                                           *)
(***************************************************************************)
\* C21: the calls for one identifier all obtain the same lock object, and
\* the entry DOWNLOAD_LOCKS holds for an identifier, once made, is never
\* replaced or removed.
C21_OneLockPerId ==
  /\ [] ( \A t, u \in Threads :
            ( /\ video_id[t] = video_id[u]
              /\ lock[t] # NoLock /\ lock[u] # NoLock )
            => lock[t] = lock[u] )
  /\ [][ \A i \in Ids :
           DOWNLOAD_LOCKS[i] # NoLock
           => DOWNLOAD_LOCKS'[i] = DOWNLOAD_LOCKS[i] ]_vars

(***************************************************************************)
(* make_filename applied to raw (title, artists) strings.                  *)
(***************************************************************************)
MaxRaw == 2

\* Strings of a letter, a space, and the path separator.
RawNames ==
  UNION { [ 1 .. n -> { "a", " ", "/" } ] : n \in 0 .. MaxRaw }

InitRawFilename ==
  /\ Started(SameTrack, << >>)
  /\ CacheEmpty
  /\ args \in { [ fn |-> "make_filename", title |-> t, artists |-> a ] :
                  t \in RawNames, a \in RawNames }
  /\ ret = NotCalled

\* Lines 84-92: make_filename(title, artists).
MakeFilename ==
  /\ args # NoArgs /\ args.fn = "make_filename"
  /\ ret = NotCalled
  /\ ret' = make_filename(args.title, args.artists)
  /\ UNCHANGED << base, cvars, args >>

NextRawFilename == MakeFilename

SpecRawFilename == InitRawFilename /\ [][NextRawFilename]_vars

\* C22: whatever the title and the artists, the name make_filename returns
\* is the extension preceded by alphanumerics, spaces, hyphens and
\* underscores only.
C22_AlwaysSanitized ==
  ret # NotCalled
  => /\ ret # << >> /\ ret[Len(ret)] = ".mp3"
     /\ \A i \in 1 .. Len(ret) - 1 : ret[i] \in SafeChars

(***************************************************************************)
(* format_artists, the artist extraction of the search and album pages,    *)
(* and the resolver's extraction set beside it.                            *)
(***************************************************************************)
\* Lines 99-106: of a dict its name, else its artist, else its browseId, if
\* any of them is truthy; anything else as str() gives it.
RECURSIVE ArtistNames(_)
ArtistNames(entries) ==
  IF entries = << >> THEN << >>
  ELSE LET a == Head(entries)
           n == IF a.name # << >> THEN a.name
                ELSE IF a.artist # << >> THEN a.artist
                ELSE a.browseId
       IN  (IF a.isdict
            THEN (IF n # << >> THEN << n >> ELSE << >>)
            ELSE << a.raw >>) \o ArtistNames(Tail(entries))

\* Lines 95-107: format_artists(artists).
format_artists(artists) ==
  IF artists = << >> THEN << >> ELSE JoinWith(ArtistNames(artists), CommaSep)

\* C23: with a primary record that has a title, the resolver's artists are
\* the entries' names (of a dict its name, else its artist, else its
\* browseId; a string as it is), joined; the videoDetails author when that
\* list is empty; and in both cases nothing the secondary lookup returned.
C23_ArtistExtraction ==
  ( /\ ret # NotCalled /\ args.song.some
    /\ ( args.song.title # << >> \/ args.song.vdTitle # << >> ) )
  => LET names == ArtistNames(args.song.artists)
     IN  /\ names # << >> => ret[2] = format_artists(args.song.artists)
         /\ ( names = << >> /\ args.song.vdAuthor # << >> )
            => ret[2] = args.song.vdAuthor

(***************************************************************************)
(* add_metadata(audio_path, song_info, ytdlp_info).  A tag record is what  *)
(* the function reads of song_info (some = FALSE: None), a raw record what *)
(* it reads of ytdlp_info; the environment says what make_psp_cover        *)
(* returns and whether adding the picture frame and saving raise.  An      *)
(* absent key and a falsy value are both << >>.                            *)
(***************************************************************************)
ENABLE_COVER == TRUE

NoTags ==
  [ some |-> FALSE, title |-> << >>, artists |-> << >>, album |-> << >>,
    year |-> << >>, thumbnails |-> << >>, vdThumbnail |-> << >> ]

\* song_info and what it may hold; its thumbnails are no list, one entry,
\* two entries, or a list whose last entry has no url.
TagRecords ==
  { NoTags } \cup
  { [ some |-> TRUE, title |-> t, artists |-> a, album |-> al, year |-> y,
      thumbnails |-> th, vdThumbnail |-> vt ] :
      t \in { << >>, << "S" >> },
      a \in { << >>, << ArtistDict(<< >>, << "B" >>, << "b" >>) >> },
      al \in { << >>, << "L" >> }, y \in { << >>, << "1", "9", "9", "9" >> },
      th \in { << >>, << << "t", "1" >> >>,
               << << "t", "1" >>, << "t", "2" >> >>,
               << << "t", "1" >>, << >> >> },
      vt \in { << >>, << "v" >> } }

\* ytdlp_info: None, or a record with or without the fields read.
RawRecords ==
  { [ some |-> FALSE, title |-> << >>, artist |-> << >>, uploader |-> << >>,
      uploader_id |-> << >>, album |-> << >>, release |-> << >>,
      upload_date |-> << >>, thumbnail |-> << >> ] } \cup
  { [ some |-> TRUE, title |-> t, artist |-> << >>, uploader |-> u,
      uploader_id |-> << >>, album |-> << >>, release |-> << >>,
      upload_date |-> d, thumbnail |-> th ] :
      t \in { << >>, << "T" >> }, u \in { << >>, << "U" >> },
      d \in { << >>, << "2", "0" >>,
             << "2", "0", "2", "4", "0", "1", "3", "1" >> },
      th \in { << >>, << "r" >> } }

\* Lines 175-182: of a dict its name, else its artist; a string as it is.
RECURSIVE TagArtists(_)
TagArtists(entries) ==
  IF entries = << >> THEN << >>
  ELSE LET a == Head(entries)
           nm == IF a.name # << >> THEN a.name ELSE a.artist
       IN  (IF a.isdict
            THEN (IF nm # << >> THEN << nm >> ELSE << >>)
            ELSE << a.raw >>) \o TagArtists(Tail(entries))

\* Lines 230-240: the cover URL, << >> for None.
CoverUrl(song, ytdlp_info) ==
  IF ~(ENABLE_COVER /\ ytdlp_info.some) THEN << >>
  ELSE IF ytdlp_info.thumbnail # << >> THEN ytdlp_info.thumbnail
  ELSE IF ~song.some THEN << >>
  ELSE IF song.thumbnails # << >>
    THEN song.thumbnails[Len(song.thumbnails)]
  ELSE song.vdThumbnail

\* Lines 148-267: << title, artists_list, album, year, cover_url, the picture
\* frame was added, the tags were saved >>; album and year are << >> when
\* no frame is added for them.
add_metadata(stem, song, ytdlp_info, world) ==
  LET title == IF song.some /\ song.title # << >> THEN song.title
               ELSE IF ytdlp_info.some /\ ytdlp_info.title # << >>
                 THEN ytdlp_info.title
               ELSE stem
      listed == IF song.some THEN TagArtists(song.artists) ELSE << >>
      a == IF ytdlp_info.artist # << >> THEN ytdlp_info.artist
           ELSE IF ytdlp_info.uploader # << >> THEN ytdlp_info.uploader
           ELSE ytdlp_info.uploader_id
      artists_list == IF listed = << >> /\ ytdlp_info.some /\ a # << >>
                        THEN << a >>
                      ELSE IF listed = << >> THEN << UnknownArtist >>
                      ELSE listed
      album == IF song.some /\ song.album # << >> THEN song.album
               ELSE IF ytdlp_info.some
                 THEN (IF ytdlp_info.album # << >> THEN ytdlp_info.album
                       ELSE ytdlp_info.release)
               ELSE << >>
      year == IF song.some /\ song.year # << >> THEN song.year
              ELSE IF ytdlp_info.some /\ Len(ytdlp_info.upload_date) >= 4
                THEN SubSeq(ytdlp_info.upload_date, 1, 4)
              ELSE << >>
      cover_url == CoverUrl(song, ytdlp_info)
      apic == cover_url # << >> /\ world.cover_ok /\ ~world.apic_raises
  IN  << title, artists_list, album, year, cover_url, apic,
         ~world.save_raises >>

InitTags ==
  /\ Started(SameTrack, << >>)
  /\ CacheEmpty
  /\ args \in { [ fn |-> "add_metadata", song |-> sd, info |-> i, world |-> w ] :
                  sd \in TagRecords, i \in RawRecords,
                  w \in [ cover_ok : BOOLEAN, apic_raises : BOOLEAN,
                          save_raises : BOOLEAN ] }
  /\ ret = NotCalled

\* Lines 148-267: one call of add_metadata, on a file whose stem is F.
AddMetadata ==
  /\ args # NoArgs /\ args.fn = "add_metadata"
  /\ ret = NotCalled
  /\ ret' = add_metadata(<< "F" >>, args.song, args.info, args.world)
  /\ UNCHANGED << base, cvars, args >>

NextTags == AddMetadata

SpecTags == InitTags /\ [][NextTags]_vars

\* C24: the cover URL is the raw record's thumbnail if it has one, else the
\* url of the last thumbnail of the tag record, else the videoDetails
\* thumbnail, with or without a raw record; and whatever becomes of the
\* cover, title and artists are set, album and year are set when the
\* records give them, and the tags are saved unless the save itself fails.
C24_CoverPriority ==
  ret # NotCalled
  => LET song == args.song
         raw == args.info
         last == IF song.some /\ song.thumbnails # << >>
                 THEN song.thumbnails[Len(song.thumbnails)] ELSE << >>
         url == IF raw.some /\ raw.thumbnail # << >> THEN raw.thumbnail
                ELSE IF last # << >> THEN last
                ELSE IF song.some THEN song.vdThumbnail
                ELSE << >>
     IN  /\ ret[5] = url
         /\ ret[1] # << >> /\ ret[2] # << >>
         /\ ( song.some /\ song.album # << >> ) => ret[3] = song.album
         /\ ( song.some /\ song.year # << >> ) => ret[4] = song.year
         /\ ret[7] = ~args.world.save_raises

==========================================================================
